---- MODULE Spec2Model ----
(***************************************************************************)
(* A model of src/main.py, the "cellar" drawing: GlobalSetup's derivation  *)
(* of the layout constants, Coords, Screen / Rack / Shelf construction and *)
(* drawing, Shelf.divide and the three item classes.                       *)
(*                                                                         *)
(* Lengths that the program holds as floats in [0, 1] (the arguments and   *)
(* results of Shelf.divide) are held here in fixed point, Unit steps to    *)
(* 1.0; pixel quantities are integers, / and int() on them are computed    *)
(* with \div as the program computes them with // and int().               *)
(***************************************************************************)
EXTENDS Integers, Sequences, FiniteSets, TLC

VARIABLES
    window_shape,   \* GlobalSetup.window_shape with the type of each entry
    screen_res,     \* what GlobalSetup.__init__ detects: screen_width, screen_height
    pad_arg,        \* the pad argument of Screen(pad)
    run,            \* the runs of the program (processes), each a record
    shelf,          \* one Shelf under construction: divide's store, the budgets
    item,           \* one item: its slot, its fields after __init__, its draw calls
    crd,            \* one Coords object and the operations applied to it
    tree            \* one scene: the tree Screen() builds and the calls draw() emits

vars == <<window_shape, screen_res, pad_arg, run, shelf, item, crd, tree>>

-----------------------------------------------------------------------------
(* Bounds of the model.                                                    *)

\* size of the state space of the pseudo-random generator
RngMod == 16
\* number of interior split points tried between the two extreme ones
SplitChoices == 1
\* largest slot width / height an item is constructed with
MaxSlotW == 5
MaxSlotH == 7
\* number of undo_shift calls followed on one Coords object
MaxUndo == 3
\* number of additions followed on one Coords object
MaxAdd == 2

-----------------------------------------------------------------------------
(* Program constants.                                                      *)

\* fixed point: the float 1.0 (default `end` of Shelf.divide)
Unit == 1000
rack_thickness == 5
Seed == 677

cellar_background_color == <<211, 211, 211>>
white == <<255, 255, 255>>
black == <<0, 0, 0>>
dark_gray == <<162, 162, 162>>
yellow == <<255, 229, 124>>

Max(a, b) == IF a >= b THEN a ELSE b

\* int(.15 * v): truncation towards zero of 15% of v
Pad15(v) == IF v >= 0 THEN (3 * v) \div 20 ELSE -((3 * (-v)) \div 20)

-----------------------------------------------------------------------------
(* The random module: a generator whose output is a function of its state. *)
(* The state at interpreter start comes from the operating system's        *)
(* entropy; random.seed(a) sets it to a function of a.                     *)

RngStates == 0 .. (RngMod - 1)
RngNext(s) == (5 * s + 3) % RngMod
RECURSIVE RngAfter(_, _)
RngAfter(s, k) == IF k = 0 THEN s ELSE RngAfter(RngNext(s), k - 1)
randint(s, lo, hi) == lo + (s % (hi - lo + 1))
random_seed(a) == a % RngMod

\* Color.random_color: three draws
random_color(s) ==
    << randint(s, 0, 255), randint(RngAfter(s, 1), 0, 255), randint(RngAfter(s, 2), 0, 255) >>

-----------------------------------------------------------------------------
(* GlobalSetup: the class body, evaluated when the module is imported.     *)

padding == [left   |-> Pad15(window_shape.w), right  |-> Pad15(window_shape.w),
            top    |-> Pad15(window_shape.h), bottom |-> Pad15(window_shape.h)]
real_h == window_shape.h - padding.top - padding.bottom
real_w == window_shape.w - padding.left - padding.right
min_number_of_shelves == Max(real_h \div 90, 3)
max_number_of_shelves == Max(real_h \div 40, 3)
min_number_of_racks == Max(real_w \div 250, 2)
max_number_of_racks == Max(real_w \div 100, 2)
n_racks_threshold == (min_number_of_racks + max_number_of_racks) \div 2

\* lines 88-93: the two regimes of item widths, in Unit-ths
ItemWidthBelow == [min_item_width |-> (8 * Unit) \div 100, max_item_width |-> (18 * Unit) \div 100]
ItemWidthAbove == [min_item_width |-> (12 * Unit) \div 100, max_item_width |-> (27 * Unit) \div 100]
\* the comparison of line 88 taken as <=
ItemWidthsInclusive(n) == IF n <= n_racks_threshold THEN ItemWidthBelow ELSE ItemWidthAbove
ItemWidths(n) == IF n < n_racks_threshold THEN ItemWidthBelow ELSE ItemWidthAbove

-----------------------------------------------------------------------------
(* Coords.                                                                 *)

half_w == window_shape.w \div 2
half_h == window_shape.h \div 2

Coords(x, y) == [coords |-> <<x - half_w, y - half_h>>, x |-> x - half_w, y |-> y - half_h]

\* undo_shift taking the half window off once more instead of adding it back
undo_shift_subtract(c) == [coords |-> <<c.coords[1] - half_w, c.coords[2] - half_h>>,
                           x |-> c.coords[1] - half_w, y |-> c.coords[2] - half_h]
\* undo_shift that does nothing (add_unbiased used without its correction)
undo_shift_missing(c) == c

undo_shift(c) == [coords |-> <<c.coords[1] + half_w, c.coords[2] + half_h>>,
                  x |-> c.coords[1] + half_w, y |-> c.coords[2] + half_h]

CoordsAdd(c, other) == Coords(c.x + other.x, c.y + other.y)

add_unbiased(c, other) == Coords(c.x + other[1], c.y + other[2])

-----------------------------------------------------------------------------
(* DrawingMethods: a call is recorded with its arguments.                  *)

draw_rectangle(starting_coords, shape, bg_color, pen_color) ==
    [prim |-> "rectangle", origin |-> starting_coords, shape |-> shape,
     bg |-> bg_color, pen |-> pen_color]

draw_triangle(starting_coords, length, bg_color, pen_color) ==
    [prim |-> "triangle", origin |-> starting_coords, shape |-> <<length, length>>,
     bg |-> bg_color, pen |-> pen_color]

draw_bottle(starting_coords, w, h, bg_color, pen_color) ==
    [prim |-> "bottle", origin |-> starting_coords, shape |-> <<w, h>>,
     bg |-> bg_color, pen |-> pen_color]

-----------------------------------------------------------------------------
(* Rack.__init__ and Screen.__init__.  The items of a shelf are built by   *)
(* Shelf.__init__, modelled on one shelf further down (ShelfInit ...).     *)

\* the k-th shelf (k = 1 .. n_shelves) of a rack: lines 388-396
RackShelf(w, h, coords, n_shelves, color, k) ==
    LET shelf_w == w - 2 * rack_thickness
        shelf_h == h \div n_shelves
        s_x == coords[1] + rack_thickness
        s_y == coords[2] + shelf_h \div 2 - rack_thickness \div 2
    IN  [width     |-> shelf_w,
         height    |-> IF k < n_shelves THEN shelf_h ELSE shelf_h \div 2,
         lb_coords |-> <<s_x, s_y + (k - 1) * shelf_h>>,
         color     |-> color]

\* Rack.__init__(w, h, coords) with the generator in state s
Rack(w, h, coords, s) ==
    LET n_shelves == randint(s, min_number_of_shelves, max_number_of_shelves)
        color == random_color(RngAfter(s, 1))
    IN  [width |-> w, height |-> h, lb_coords |-> coords,
         n_shelves |-> n_shelves, color |-> color,
         shelves |-> [k \in 1 .. n_shelves |-> RackShelf(w, h, coords, n_shelves, color, k)]]

\* draws of the generator made by Rack.__init__ itself: n_shelves and a colour
RackDraws == 4

\* the loop with line 332 advancing by one pixel too many
RECURSIVE ScreenRacksGap(_, _, _, _, _, _)
ScreenRacksGap(i, n, rack_w, rack_h, coords, s) ==
    IF i > n THEN << >>
    ELSE << Rack(rack_w, rack_h, coords, s) >>
         \o ScreenRacksGap(i + 1, n, rack_w, rack_h, <<coords[1] + rack_w + 1, coords[2]>>,
                           RngAfter(s, RackDraws))

\* the loop of lines 328-332: racks i .. n, the generator in state s
RECURSIVE ScreenRacks(_, _, _, _, _, _)
ScreenRacks(i, n, rack_w, rack_h, coords, s) ==
    IF i > n THEN << >>
    ELSE << Rack(rack_w, rack_h, coords, s) >>
         \o ScreenRacks(i + 1, n, rack_w, rack_h, <<coords[1] + rack_w, coords[2]>>,
                        RngAfter(s, RackDraws))

\* lines 311-319: the padding Screen uses
ScreenPad(arg) ==
    IF arg.kind = "dict"
    THEN [left |-> arg.left, right |-> arg.right, top |-> arg.top, bottom |-> arg.bottom]
    ELSE padding

\* lines 321-323
JointRackW(pad) == window_shape.w - pad.left - pad.right
RackW(pad, n) == JointRackW(pad) \div n
RackH(pad) == window_shape.h - pad.top - pad.bottom

\* line 300
RaisesTypeError == ~window_shape.h_int \/ ~window_shape.w_int
\* lines 303-305
RaisesTooBig ==
    /\ screen_res.detected
    /\ (window_shape.h > screen_res.height \/ window_shape.w > screen_res.width)
\* the test of line 324 taken as < 0
RaisesPaddingsNegative(pad, n) == RackW(pad, n) < 0 \/ RackH(pad) < 0
\* lines 324-325
RaisesPaddings(pad, n) == RackW(pad, n) < 1 \/ RackH(pad) < 1

-----------------------------------------------------------------------------
(* Drawing of Screen, Rack and Shelf.                                      *)

\* Rack.draw_rack_alone
draw_rack_alone(rack) ==
    << draw_rectangle(Coords(rack.lb_coords[1], rack.lb_coords[2]),
                      <<rack_thickness, rack.height>>, rack.color, rack.color),
       draw_rectangle(Coords(rack.lb_coords[1] + rack.width - rack_thickness, rack.lb_coords[2]),
                      <<rack_thickness, rack.height>>, rack.color, rack.color) >>

\* Shelf.draw: the board
ShelfBoard(sh) ==
    draw_rectangle(Coords(sh.lb_coords[1], sh.lb_coords[2]),
                   <<sh.width, rack_thickness>>, sh.color, sh.color)

RECURSIVE ShelvesDraw(_, _)
ShelvesDraw(shelves, k) ==
    IF k > Len(shelves) THEN << >>
    ELSE << ShelfBoard(shelves[k]) >> \o ShelvesDraw(shelves, k + 1)

\* Rack.draw
RackDraw(rack) ==
    draw_rack_alone(rack) \o ShelvesDraw(rack.shelves, 1) \o draw_rack_alone(rack)

RECURSIVE RacksDraw(_, _)
RacksDraw(racks, i) ==
    IF i > Len(racks) THEN << >>
    ELSE RackDraw(racks[i]) \o RacksDraw(racks, i + 1)

\* Screen.draw
ScreenDrawCalls(pad, joint_rack_w, rack_h, racks) ==
    << draw_rectangle(Coords(pad.left, pad.bottom), <<joint_rack_w, rack_h>>,
                      cellar_background_color, cellar_background_color) >>
    \o RacksDraw(racks, 1)

-----------------------------------------------------------------------------
(* A run of the program: import of the module (the class bodies), main():  *)
(* random.seed(677), Screen(), Screen.draw().                              *)

NoPad == [left |-> 0, right |-> 0, top |-> 0, bottom |-> 0]

RunStart(entropy) ==
    [pc |-> "start", rng |-> entropy, n_racks |-> 0,
     min_item_width |-> 0, max_item_width |-> 0,
     pad |-> NoPad, joint_rack_w |-> 0, rack_h |-> 0,
     racks |-> << >>, calls |-> << >>, err |-> "none"]

\* lines 62-93: the class body of GlobalSetup; n_racks is drawn here
GlobalSetupBody(r) ==
    /\ run[r].pc = "start"
    /\ LET n == randint(run[r].rng, min_number_of_racks, max_number_of_racks)
       IN  run' = [run EXCEPT ![r].pc = "imported",
                              ![r].n_racks = n,
                              ![r].min_item_width = ItemWidths(n).min_item_width,
                              ![r].max_item_width = ItemWidths(n).max_item_width,
                              ![r].rng = RngNext(run[r].rng)]
    /\ UNCHANGED <<window_shape, screen_res, pad_arg, shelf, item, crd, tree>>

\* line 81 with a float width: random.randint refuses float bounds on the
\* interpreters that require integers, and accepts integral floats on the others
GlobalSetupRaises(r) ==
    /\ run[r].pc = "start"
    /\ ~window_shape.w_int
    /\ run' = [run EXCEPT ![r].pc = "error", ![r].err = "TypeError"]
    /\ UNCHANGED <<window_shape, screen_res, pad_arg, shelf, item, crd, tree>>

\* line 638
MainSeed(r) ==
    /\ run[r].pc = "imported"
    /\ run' = [run EXCEPT ![r].pc = "seeded", ![r].rng = random_seed(Seed)]
    /\ UNCHANGED <<window_shape, screen_res, pad_arg, shelf, item, crd, tree>>

\* what Screen.__init__ raises, if anything: lines 300-305, 324-325
ScreenError(pad, n) ==
    IF RaisesTypeError THEN "TypeError"
    ELSE IF RaisesTooBig THEN "ValueError"
    ELSE IF RaisesPaddings(pad, n) THEN "ValueError"
    ELSE "none"

\* line 639: Screen.__init__(pad)
ScreenInit(r) ==
    /\ run[r].pc = "seeded"
    /\ LET pad == ScreenPad(pad_arg)
           n == run[r].n_racks
           e == ScreenError(pad, n)
       IN  IF e # "none"
           THEN run' = [run EXCEPT ![r].pc = "error", ![r].err = e]
           ELSE run' = [run EXCEPT
                    ![r].pc = "constructed",
                    ![r].pad = pad,
                    ![r].joint_rack_w = JointRackW(pad),
                    ![r].rack_h = RackH(pad),
                    ![r].racks = ScreenRacks(1, n, RackW(pad, n), RackH(pad),
                                             <<pad.left, pad.bottom>>, run[r].rng),
                    ![r].rng = RngAfter(run[r].rng, n * RackDraws)]
    /\ UNCHANGED <<window_shape, screen_res, pad_arg, shelf, item, crd, tree>>

\* line 641: Screen.draw()
ScreenDraw(r) ==
    /\ run[r].pc = "constructed"
    /\ run' = [run EXCEPT
            ![r].pc = "drawn",
            ![r].calls = ScreenDrawCalls(run[r].pad, run[r].joint_rack_w,
                                         run[r].rack_h, run[r].racks)]
    /\ UNCHANGED <<window_shape, screen_res, pad_arg, shelf, item, crd, tree>>

-----------------------------------------------------------------------------
(* Inputs.                                                                 *)

WindowSizes == { <<1600, 900>>, <<640, 480>>, <<0, 900>>, <<1600, 0>>, <<-200, -100>> }
\* (width is an int, height is an int)
WindowTypes == { <<TRUE, TRUE>>, <<FALSE, TRUE>>, <<TRUE, FALSE>> }
WindowShapes ==
    { [w |-> sz[1], h |-> sz[2], w_int |-> ty[1], h_int |-> ty[2]] :
        sz \in WindowSizes, ty \in WindowTypes }

ScreenResolutions ==
    { [detected |-> FALSE, width |-> 0, height |-> 0],
      [detected |-> TRUE, width |-> 1920, height |-> 1080],
      [detected |-> TRUE, width |-> 1366, height |-> 768] }

PadArgs ==
    { [kind |-> "default", left |-> 0, right |-> 0, top |-> 0, bottom |-> 0],
      [kind |-> "none", left |-> 0, right |-> 0, top |-> 0, bottom |-> 0],
      [kind |-> "dict", left |-> 0, right |-> 0, top |-> 0, bottom |-> 0],
      [kind |-> "dict", left |-> 300, right |-> 300, top |-> 200, bottom |-> 200],
      [kind |-> "dict", left |-> 800, right |-> 800, top |-> 0, bottom |-> 0],
      [kind |-> "dict", left |-> 0, right |-> 0, top |-> 450, bottom |-> 450] }

IdleShelf == [pc |-> "idle"]
IdleItem == [pc |-> "idle"]
IdleCrd == [pc |-> "idle"]
IdleTree == [pc |-> "idle"]

-----------------------------------------------------------------------------
(* Spec: one run of the program.  SpecRuns: two runs of it, with the same  *)
(* window, screen, padding and seed.                                       *)

Init ==
    /\ window_shape \in WindowShapes
    /\ screen_res \in ScreenResolutions
    /\ pad_arg \in PadArgs
    /\ \E e \in RngStates : run = [r \in {1} |-> RunStart(e)]
    /\ shelf = IdleShelf
    /\ item = IdleItem
    /\ crd = IdleCrd
    /\ tree = IdleTree

Import == \E r \in DOMAIN run : GlobalSetupBody(r)
ImportRaises == \E r \in DOMAIN run : GlobalSetupRaises(r)
SeedRandom == \E r \in DOMAIN run : MainSeed(r)
Construct == \E r \in DOMAIN run : ScreenInit(r)
Draw == \E r \in DOMAIN run : ScreenDraw(r)

Next == Import \/ ImportRaises \/ SeedRandom \/ Construct \/ Draw

Spec == Init /\ [][Next]_vars

InitRuns ==
    /\ window_shape \in WindowShapes
    /\ screen_res \in ScreenResolutions
    /\ pad_arg \in { pa \in PadArgs : pa.kind = "default" }
    /\ \E e1 \in RngStates, e2 \in RngStates : run = [r \in {1, 2} |-> RunStart(IF r = 1 THEN e1 ELSE e2)]
    /\ shelf = IdleShelf
    /\ item = IdleItem
    /\ crd = IdleCrd
    /\ tree = IdleTree

SpecRuns == InitRuns /\ [][Next]_vars

-----------------------------------------------------------------------------
(* Shelf.__init__ and Shelf.divide on one shelf.  divide is recursive: the *)
(* pending calls are kept on a stack, the call on top is the next to run,  *)
(* so the left half of a split is divided to the end before the right.     *)

\* the values random.uniform(lo, hi) is followed on: both ends and
\* SplitChoices interior points
Uniform(lo, hi) ==
    {lo, hi} \cup { lo + ((hi - lo) * i) \div (SplitChoices + 2) : i \in 1 .. SplitChoices }

\* line 491 without the margins of min_item_width
SplitPointsNoMargin(begin, end, min_w) == Uniform(begin, end)
\* line 491: the split points of [begin, end]
SplitPoints(begin, end, min_w) == Uniform(begin + min_w, end - min_w)

\* lines 492-493 in the other order
DivideCallsRightFirst(begin, div_point, end) == << <<div_point, end>>, <<begin, div_point>> >>
\* lines 492-493: the two recursive calls, in call order
DivideCalls(begin, div_point, end) == << <<begin, div_point>>, <<div_point, end>> >>

\* int() rounding up instead of truncating
ItemBudgetCeil(length, width) == (length * width + Unit - 1) \div Unit
\* line 468: int(length * self.width), length in Unit-ths; int() truncates
\* towards zero
ItemBudget(length, width) ==
    IF length * width >= 0 THEN (length * width) \div Unit
    ELSE -((-(length * width)) \div Unit)

\* line 453
IntervalLength(c) == c[2] - c[1]

\* a call divide(store, begin, end) that takes the else branch (line 495)
DivideLeaf ==
    /\ shelf.pc = "divide"
    /\ shelf.stack # << >>
    /\ LET top == Head(shelf.stack)
       IN  /\ ~(IntervalLength(top) > shelf.max_item_width)
           /\ shelf' = [shelf EXCEPT
                  !.store = Append(shelf.store, top),
                  !.stack = Tail(shelf.stack),
                  !.pc = IF Tail(shelf.stack) = << >> THEN "divided" ELSE "divide"]
    /\ UNCHANGED <<window_shape, screen_res, pad_arg, run, item, crd, tree>>

\* a call divide(store, begin, end) that splits (lines 490-493)
DivideSplit ==
    /\ shelf.pc = "divide"
    /\ shelf.stack # << >>
    /\ LET top == Head(shelf.stack)
       IN  /\ IntervalLength(top) > shelf.max_item_width
           /\ \E div_point \in SplitPoints(top[1], top[2], shelf.min_item_width) :
                 shelf' = [shelf EXCEPT
                     !.stack = DivideCalls(top[1], div_point, top[2]) \o Tail(shelf.stack)]
    /\ UNCHANGED <<window_shape, screen_res, pad_arg, run, item, crd, tree>>

\* lines 453-470 of Shelf.__init__ after divide(end_item_coords) returned:
\* the width budget of every item and the (scaled) x offset it is placed at
ShelfItems ==
    /\ shelf.pc = "divided"
    /\ shelf.from_init
    /\ shelf' = [shelf EXCEPT
           !.pc = "items",
           !.budgets = [i \in 1 .. Len(shelf.store) |->
                           ItemBudget(IntervalLength(shelf.store[i]), shelf.width)],
           !.offsets = [i \in 1 .. Len(shelf.store) |-> shelf.store[i][1] * shelf.width]]
    /\ UNCHANGED <<window_shape, screen_res, pad_arg, run, item, crd, tree>>

\* shelf widths: the one of the scenario and rack_w - 2 * rack_thickness
\* for 4, 7 and 11 racks in the 1600 x 900 window
ShelfWidths == {300, 270, 150, 91}
\* divide(store) as Shelf.__init__ calls it, and direct calls divide(store, begin, end)
DivideArgs == { <<0, Unit>>, <<0, Unit \div 20>>, <<Unit \div 4, (9 * Unit) \div 10>> }

ShelfStart(width, regime, args, from_init) ==
    [pc |-> "divide", width |-> width, from_init |-> from_init,
     min_item_width |-> regime.min_item_width, max_item_width |-> regime.max_item_width,
     begin |-> args[1], end |-> args[2],
     store |-> << >>, stack |-> << args >>, budgets |-> << >>, offsets |-> << >>]

InitShelf ==
    /\ window_shape = [w |-> 1600, h |-> 900, w_int |-> TRUE, h_int |-> TRUE]
    /\ screen_res \in { sr \in ScreenResolutions : ~sr.detected }
    /\ pad_arg \in { pa \in PadArgs : pa.kind = "default" }
    /\ run = << >>
    /\ \E width \in ShelfWidths, regime \in {ItemWidthBelow, ItemWidthAbove},
          args \in DivideArgs, from_init \in BOOLEAN :
            /\ from_init => args = <<0, Unit>>
            /\ shelf = ShelfStart(width, regime, args, from_init)
    /\ item = IdleItem
    /\ crd = IdleCrd
    /\ tree = IdleTree

NextShelf == DivideLeaf \/ DivideSplit \/ ShelfItems

SpecShelf == InitShelf /\ [][NextShelf]_vars

-----------------------------------------------------------------------------
(* One item in its slot: Shelf.__init__ (line 467) hands the constructor   *)
(* a Coords built from item_lb_coords, a width and a height budget.        *)

\* the integer part of the square root
ISqrt(n) == CHOOSE k \in 0 .. n : k * k <= n /\ (k + 1) * (k + 1) > n

\* line 592: 3**(1/2) * w // 2, the floor of sqrt(3) * w / 2
SaltHeightFloor(w) ==
    IF w >= 0 THEN ISqrt(3 * w * w) \div 2 ELSE -(ISqrt(3 * w * w) \div 2) - 1
\* line 593: h // (3**(1/2) / 2), the floor of 2 * h / sqrt(3)
SaltNewW(h) ==
    IF h >= 0 THEN ISqrt((4 * h * h) \div 3) ELSE -ISqrt((4 * h * h) \div 3) - 1

ColorSamples == { <<0, 0, 0>>, <<200, 30, 99>> }
GraySamples == { <<204, 204, 204>>, <<255, 255, 255>> }
BeerColorSamples == { <<0, 112, 0>>, <<105, 76, 47>> }

\* AbstractItem.__init__ (lines 543-546) on the slot
ItemBase(kind, color) ==
    [item EXCEPT !.pc = "built", !.kind = kind, !.color = color]

\* Jar.__init__
JarInit ==
    /\ item.pc = "slot"
    /\ \E color \in ColorSamples, new_h \in (item.h \div 2) .. item.h :
          item' = [ItemBase("Jar", color) EXCEPT !.h = new_h]
    /\ UNCHANGED <<window_shape, screen_res, pad_arg, run, shelf, crd, tree>>

\* Salt.__init__
SaltInit ==
    /\ item.pc = "slot"
    /\ \E color \in ColorSamples, gray \in GraySamples :
          IF SaltHeightFloor(item.w) > item.h
          THEN LET new_w == SaltNewW(item.h)
                   delta_x == (item.w - new_w) \div 2
               IN  item' = [ItemBase("Salt", gray) EXCEPT
                       !.lb_coords = undo_shift(add_unbiased(item.lb_coords, <<delta_x, 0>>)),
                       !.w = new_w]
          ELSE item' = ItemBase("Salt", gray)
    /\ UNCHANGED <<window_shape, screen_res, pad_arg, run, shelf, crd, tree>>

\* Beer.__init__
BeerInit ==
    /\ item.pc = "slot"
    /\ \E color \in ColorSamples, beer_color \in BeerColorSamples,
          label_color \in ColorSamples, cap_color \in ColorSamples :
          LET base == [ItemBase("Beer", color) EXCEPT
                          !.beer_color = beer_color, !.label_color = label_color,
                          !.cap_color = cap_color]
          IN  IF item.h > 2 * item.w
              THEN \E new_h \in (2 * item.w) .. item.h :
                      item' = [base EXCEPT !.h = new_h]
              ELSE LET new_w == item.h \div 2
                   IN  item' = [base EXCEPT
                           !.lb_coords = undo_shift(add_unbiased(item.lb_coords,
                                                        <<(item.w - new_w) \div 2, 0>>)),
                           !.w = new_w]
    /\ UNCHANGED <<window_shape, screen_res, pad_arg, run, shelf, crd, tree>>

\* Jar.draw: the calls it makes
JarCalls(it) ==
    << draw_rectangle(it.lb_coords, <<it.w, (it.h * 6) \div 7>>, white, black),
       draw_rectangle(undo_shift(add_unbiased(it.lb_coords,
                          <<it.w \div 10, (6 * it.h) \div 7>>)),
                      <<(4 * it.w) \div 5, Max(3, it.h \div 7)>>,
                      dark_gray, dark_gray),
       draw_rectangle(it.lb_coords, <<it.w, (54 * it.h) \div 70>>,
                      it.color, black),
       draw_rectangle(undo_shift(add_unbiased(it.lb_coords,
                          <<it.w \div 4, (3 * it.h) \div 14>>)),
                      <<it.w \div 2, (3 * it.h) \div 7>>, yellow, black) >>

\* Salt.draw: the call it makes
SaltCalls(it) == << draw_triangle(it.lb_coords, it.w, it.color, black) >>

\* Beer.draw: the calls it makes when random.randint(0, 10) of line 625
\* returns ran
BeerCalls(it, ran) ==
    LET cap == IF ran = 0 THEN it.cap_color ELSE it.label_color
    IN  << draw_bottle(it.lb_coords, it.w, it.h, it.beer_color, black),
           draw_rectangle(undo_shift(add_unbiased(it.lb_coords, <<0, it.h \div 6>>)),
                          <<it.w, it.h \div 4>>, it.label_color, black),
           draw_rectangle(undo_shift(add_unbiased(it.lb_coords,
                              <<it.w \div 3, (11 * it.h) \div 12>>)),
                          <<it.w \div 3, it.h \div 12>>, cap, cap) >>

\* Jar.draw
JarDraw ==
    /\ item.pc = "built" /\ item.kind = "Jar"
    /\ item' = [item EXCEPT !.pc = "drawn", !.calls = JarCalls(item)]
    /\ UNCHANGED <<window_shape, screen_res, pad_arg, run, shelf, crd, tree>>

\* Salt.draw
SaltDraw ==
    /\ item.pc = "built" /\ item.kind = "Salt"
    /\ item' = [item EXCEPT !.pc = "drawn", !.calls = SaltCalls(item)]
    /\ UNCHANGED <<window_shape, screen_res, pad_arg, run, shelf, crd, tree>>

\* Beer.draw: the cap colour is decided here, by random.randint(0, 10)
BeerDraw ==
    /\ item.pc = "built" /\ item.kind = "Beer"
    /\ \E ran \in 0 .. 10 :
          item' = [item EXCEPT !.pc = "drawn", !.calls = BeerCalls(item, ran)]
    /\ UNCHANGED <<window_shape, screen_res, pad_arg, run, shelf, crd, tree>>

\* the slot taken as a shelf: what Shelf.draw draws itself, the board
ShelfBoardDraw ==
    /\ item.pc = "slot"
    /\ \E color \in ColorSamples :
          item' = [item EXCEPT
             !.pc = "drawn", !.kind = "Shelf", !.color = color,
             !.calls = << ShelfBoard([width |-> item.slot.w, height |-> item.slot.h,
                                      lb_coords |-> <<item.slot.x, item.slot.y>>,
                                      color |-> color]) >>]
    /\ UNCHANGED <<window_shape, screen_res, pad_arg, run, shelf, crd, tree>>

\* the slot taken as a rack: what Rack.draw draws itself, the two side bars
RackAloneDraw ==
    /\ item.pc = "slot"
    /\ \E color \in ColorSamples :
          item' = [item EXCEPT
             !.pc = "drawn", !.kind = "Rack", !.color = color,
             !.calls = draw_rack_alone([width |-> item.slot.w, height |-> item.slot.h,
                                        lb_coords |-> <<item.slot.x, item.slot.y>>,
                                        color |-> color])]
    /\ UNCHANGED <<window_shape, screen_res, pad_arg, run, shelf, crd, tree>>

\* the slot taken as the drawable rectangle: what Screen.draw draws itself
BackgroundDraw ==
    /\ item.pc = "slot"
    /\ item' = [item EXCEPT
           !.pc = "drawn", !.kind = "Screen",
           !.calls = ScreenDrawCalls([left |-> item.slot.x, right |-> 0,
                                      top |-> 0, bottom |-> item.slot.y],
                                     item.slot.w, item.slot.h, << >>)]
    /\ UNCHANGED <<window_shape, screen_res, pad_arg, run, shelf, crd, tree>>

ItemWindowSizes == { <<1600, 900>>, <<641, 481>> }
SlotWidths == (1 .. MaxSlotW) \cup {30, 100}
SlotHeights == (1 .. MaxSlotH) \cup {43, 86}

InitItem ==
    /\ \E sz \in ItemWindowSizes :
          window_shape = [w |-> sz[1], h |-> sz[2], w_int |-> TRUE, h_int |-> TRUE]
    /\ screen_res \in { sr \in ScreenResolutions : ~sr.detected }
    /\ pad_arg \in { pa \in PadArgs : pa.kind = "default" }
    /\ run = << >>
    /\ shelf = IdleShelf
    /\ crd = IdleCrd
    /\ tree = IdleTree
    /\ \E x \in {245, 803}, y \in {140, 452}, w \in SlotWidths, h \in SlotHeights :
          item = [pc |-> "slot", kind |-> "none",
                  slot |-> [x |-> x, y |-> y, w |-> w, h |-> h],
                  lb_coords |-> Coords(x, y), w |-> w, h |-> h,
                  color |-> black, beer_color |-> black, label_color |-> black,
                  cap_color |-> black, calls |-> << >>]

NextItem ==
    \/ JarInit \/ SaltInit \/ BeerInit
    \/ JarDraw \/ SaltDraw \/ BeerDraw
    \/ ShelfBoardDraw \/ RackAloneDraw \/ BackgroundDraw

SpecItem == InitItem /\ [][NextItem]_vars

-----------------------------------------------------------------------------
(* One Coords object: built from a position, then added to and shifted.    *)

\* Coords.undo_shift on the object
CrdUndoShift ==
    /\ crd.pc = "live"
    /\ crd.n_undo < MaxUndo
    /\ crd' = [crd EXCEPT
           !.cur = undo_shift(crd.cur),
           !.n_undo = crd.n_undo + 1,
           !.once = IF crd.n_undo = 0 THEN undo_shift(crd.cur) ELSE crd.once]
    /\ UNCHANGED <<window_shape, screen_res, pad_arg, run, shelf, item, tree>>

\* Coords.add_unbiased: a new object, not yet shifted back
CrdAddUnbiased ==
    /\ crd.pc = "live"
    /\ crd.n_add < MaxAdd
    /\ \E dx \in {0, 3}, dy \in {0, 12} :
          LET c == add_unbiased(crd.cur, <<dx, dy>>)
          IN  crd' = [crd EXCEPT !.cur = c, !.base = c, !.once = c,
                                 !.n_undo = 0, !.n_add = crd.n_add + 1]
    /\ UNCHANGED <<window_shape, screen_res, pad_arg, run, shelf, item, tree>>

\* Coords.__add__: a new object, not yet shifted back
CrdAdd ==
    /\ crd.pc = "live"
    /\ crd.n_add < MaxAdd
    /\ \E ox \in {0, 3}, oy \in {0, 12} :
          LET c == CoordsAdd(crd.cur, Coords(ox, oy))
          IN  crd' = [crd EXCEPT !.cur = c, !.base = c, !.once = c,
                                 !.n_undo = 0, !.n_add = crd.n_add + 1]
    /\ UNCHANGED <<window_shape, screen_res, pad_arg, run, shelf, item, tree>>

CoordsWindowSizes == WindowSizes \cup { <<1, 1>> }

InitCoords ==
    /\ \E sz \in CoordsWindowSizes :
          window_shape = [w |-> sz[1], h |-> sz[2], w_int |-> TRUE, h_int |-> TRUE]
    /\ screen_res \in { sr \in ScreenResolutions : ~sr.detected }
    /\ pad_arg \in { pa \in PadArgs : pa.kind = "default" }
    /\ run = << >>
    /\ shelf = IdleShelf
    /\ item = IdleItem
    /\ tree = IdleTree
    /\ \E x \in {0, 245}, y \in {0, 140} :
          crd = [pc |-> "live", cur |-> Coords(x, y), base |-> Coords(x, y),
                 once |-> Coords(x, y), n_undo |-> 0, n_add |-> 0]

NextCoords == CrdUndoShift \/ CrdAddUnbiased \/ CrdAdd

SpecCoords == InitCoords /\ [][NextCoords]_vars

-----------------------------------------------------------------------------
(* One scene: Screen() builds the whole tree, racks, shelves and items,    *)
(* every random decision taken from the generator in construction order;   *)
(* Screen.draw() then walks it.  The walk is followed node by node: a step *)
(* is one node drawing what it draws itself.  An item's x, a float in the  *)
(* program, is held by its whole pixels.                                   *)

\* number of times Screen.draw() is called on the scene
MaxDraws == 2

\* list(ItemType) through choice_dict: lines 458-464, 516-520
ItemTypes == << "Jar", "Jar", "Salt", "Beer", "Beer" >>

\* Color.random_gray: one draw
random_gray(s) == LET value == randint(s, 204, 255) IN <<value, value, value>>

\* Color.random_beer_color: the coin and three draws
random_beer_color(s) ==
    IF randint(s, 0, 1) = 0
    THEN << randint(RngAfter(s, 1), 0, 16), randint(RngAfter(s, 2), 112, 144),
            randint(RngAfter(s, 3), 0, 16) >>
    ELSE << randint(RngAfter(s, 1), 73, 105), randint(RngAfter(s, 2), 44, 76),
            randint(RngAfter(s, 3), 0, 47) >>

\* random.uniform(lo, hi) with the generator in state s
UniformAt(s, lo, hi) == lo + ((hi - lo) * s) \div RngMod

\* AbstractItem.__init__(Coords(x, y), w, h), the generator in state s
AbstractItem(kind, x, y, w, h, s) ==
    [kind |-> kind, slot |-> [x |-> x, y |-> y, w |-> w, h |-> h],
     lb_coords |-> Coords(x, y), w |-> w, h |-> h, color |-> random_color(s),
     beer_color |-> black, label_color |-> black, cap_color |-> black]

\* Jar(Coords(x, y), w, h): random.randint raises ValueError on an empty range
Jar(x, y, w, h, s) ==
    LET base == AbstractItem("Jar", x, y, w, h, s)
        s1 == RngAfter(s, 3)
    IN  IF h \div 2 > h
        THEN [node |-> base, rng |-> s1, err |-> "ValueError"]
        ELSE [node |-> [base EXCEPT !.h = randint(s1, h \div 2, h)],
              rng |-> RngNext(s1), err |-> "none"]

\* Salt(Coords(x, y), w, h)
Salt(x, y, w, h, s) ==
    LET base == [AbstractItem("Salt", x, y, w, h, s) EXCEPT
                    !.color = random_gray(RngAfter(s, 3))]
        s1 == RngAfter(s, 4)
    IN  IF SaltHeightFloor(w) > h
        THEN LET new_w == SaltNewW(h)
                 delta_x == (w - new_w) \div 2
             IN  [node |-> [base EXCEPT
                      !.lb_coords = undo_shift(add_unbiased(base.lb_coords, <<delta_x, 0>>)),
                      !.w = new_w],
                  rng |-> s1, err |-> "none"]
        ELSE [node |-> base, rng |-> s1, err |-> "none"]

\* Beer(Coords(x, y), w, h)
Beer(x, y, w, h, s) ==
    LET base == [AbstractItem("Beer", x, y, w, h, s) EXCEPT
                    !.beer_color = random_beer_color(RngAfter(s, 3)),
                    !.label_color = random_color(RngAfter(s, 7)),
                    !.cap_color = random_color(RngAfter(s, 10))]
        s1 == RngAfter(s, 13)
    IN  IF h > 2 * w
        THEN [node |-> [base EXCEPT !.h = randint(s1, 2 * w, h)],
              rng |-> RngNext(s1), err |-> "none"]
        ELSE LET new_w == h \div 2
             IN  [node |-> [base EXCEPT
                      !.lb_coords = undo_shift(add_unbiased(base.lb_coords,
                                                   <<(w - new_w) \div 2, 0>>)),
                      !.w = new_w],
                  rng |-> s1, err |-> "none"]

\* line 467: the constructor choice_dict gives for the chosen type
NewItem(kind, x, y, w, h, s) ==
    IF kind = "Jar" THEN Jar(x, y, w, h, s)
    ELSE IF kind = "Salt" THEN Salt(x, y, w, h, s)
    ELSE Beer(x, y, w, h, s)

\* Shelf.divide(store, begin, end), the generator in state s: the pending
\* calls are on the stack as in DivideLeaf and DivideSplit; the result is the
\* store and the state of the generator on return
RECURSIVE divide(_, _, _, _, _)
divide(stack, store, min_w, max_w, s) ==
    IF stack = << >> THEN [store |-> store, rng |-> s]
    ELSE IF IntervalLength(Head(stack)) > max_w
    THEN divide(DivideCalls(Head(stack)[1],
                            UniformAt(s, Head(stack)[1] + min_w, Head(stack)[2] - min_w),
                            Head(stack)[2]) \o Tail(stack),
                store, min_w, max_w, RngNext(s))
    ELSE divide(Tail(stack), Append(store, Head(stack)), min_w, max_w, s)

\* nothing built yet, the generator in state s
NoneBuilt(s) == [nodes |-> << >>, rng |-> s, err |-> "none"]
\* a constructor returned (or raised): the node appended, the generator moved
Appended(acc, made) ==
    [nodes |-> IF made.err = "none" THEN Append(acc.nodes, made.node) ELSE acc.nodes,
     rng |-> made.rng, err |-> made.err]

\* the loop of lines 465-470 from the i-th interval on; an exception of a
\* constructor ends it
RECURSIVE ShelfItemsFrom(_, _, _, _)
ShelfItemsFrom(sh, store, i, acc) ==
    IF i > Len(store) \/ acc.err # "none" THEN acc
    ELSE ShelfItemsFrom(sh, store, i + 1,
            Appended(acc, NewItem(ItemTypes[randint(acc.rng, 1, Len(ItemTypes))],
                               sh.lb_coords[1] + (store[i][1] * sh.width) \div Unit,
                               sh.lb_coords[2] + rack_thickness,
                               ItemBudget(IntervalLength(store[i]), sh.width),
                               sh.height - rack_thickness,
                               RngNext(acc.rng))))

\* lines 447-470: the shelf with the items filled in
ShelfFilled(sh, filled) ==
    [node |-> [width |-> sh.width, height |-> sh.height, lb_coords |-> sh.lb_coords,
               color |-> sh.color, items |-> filled.nodes],
     rng |-> filled.rng, err |-> filled.err]

\* lines 451-470 after divide returned
ShelfDivided(sh, divided) ==
    ShelfFilled(sh, ShelfItemsFrom(sh, divided.store, 1, NoneBuilt(divided.rng)))

\* Shelf.__init__ on the shelf sh of RackShelf
Shelf(sh, min_w, max_w, s) ==
    ShelfDivided(sh, divide(<< <<0, Unit>> >>, << >>, min_w, max_w, s))

\* the loops of lines 392-396 from the k-th shelf on
RECURSIVE RackShelvesFrom(_, _, _, _, _)
RackShelvesFrom(rack, k, min_w, max_w, acc) ==
    IF k > rack.n_shelves \/ acc.err # "none" THEN acc
    ELSE RackShelvesFrom(rack, k + 1, min_w, max_w,
                         Appended(acc, Shelf(rack.shelves[k], min_w, max_w, acc.rng)))

\* lines 383-396: the rack with the shelves filled in
RackFilled(rack, filled) ==
    [node |-> [rack EXCEPT !.shelves = filled.nodes], rng |-> filled.rng, err |-> filled.err]

\* Rack.__init__ with the items of its shelves
RackWithItems(w, h, coords, min_w, max_w, s) ==
    RackFilled(Rack(w, h, coords, s),
               RackShelvesFrom(Rack(w, h, coords, s), 1, min_w, max_w,
                               NoneBuilt(RngAfter(s, RackDraws))))

\* the loop of lines 328-332 with the items of the shelves
RECURSIVE ScreenRacksWithItems(_, _, _, _, _, _, _)
ScreenRacksWithItems(i, n, rack_w, rack_h, coords, regime, acc) ==
    IF i > n \/ acc.err # "none" THEN acc
    ELSE ScreenRacksWithItems(i + 1, n, rack_w, rack_h,
                              <<coords[1] + rack_w, coords[2]>>, regime,
                              Appended(acc, RackWithItems(rack_w, rack_h, coords,
                                                       regime.min_item_width,
                                                       regime.max_item_width, acc.rng)))

\* Screen.__init__ after its checks, lines 326-332
ScreenBuilt(pad, built) ==
    IF built.err # "none"
    THEN [tree EXCEPT !.pc = "error", !.err = built.err,
                      !.validated = TRUE, !.rng = built.rng]
    ELSE [tree EXCEPT
             !.pc = "built", !.validated = TRUE,
             !.pad = pad, !.joint_rack_w = JointRackW(pad), !.rack_h = RackH(pad),
             !.racks = built.nodes, !.rng = built.rng, !.rng_built = built.rng]

\* the state of main() before line 639: the module imported with n racks,
\* the generator seeded
TreeStart(n, s) ==
    [pc |-> "start", n_racks |-> n,
     min_item_width |-> ItemWidths(n).min_item_width,
     max_item_width |-> ItemWidths(n).max_item_width,
     rng |-> s, rng_built |-> s, validated |-> FALSE, err |-> "none",
     pad |-> NoPad, joint_rack_w |-> 0, rack_h |-> 0, racks |-> << >>,
     at |-> [part |-> "none", rack |-> 0, shelf |-> 0, item |-> 0],
     log |-> << >>, done |-> << >>]

\* Screen.__init__(pad), the whole of it
TreeScreenInit ==
    /\ tree.pc = "start"
    /\ LET pad == ScreenPad(pad_arg)
           n == tree.n_racks
           e == ScreenError(pad, n)
       IN  IF e # "none"
           THEN tree' = [tree EXCEPT !.pc = "error", !.err = e]
           ELSE tree' = ScreenBuilt(pad,
                            ScreenRacksWithItems(1, n, RackW(pad, n), RackH(pad),
                                                 <<pad.left, pad.bottom>>,
                                                 ItemWidths(n), NoneBuilt(tree.rng)))
    /\ UNCHANGED <<window_shape, screen_res, pad_arg, run, shelf, item, crd>>

At(part, i, j, k) == [part |-> part, rack |-> i, shelf |-> j, item |-> k]
AtEnd == At("end", 0, 0, 0)

\* Screen.draw, lines 355-356: the racks in list order
AfterBackground(racks) ==
    IF Len(racks) > 0 THEN At("bars", 1, 0, 0) ELSE AtEnd

\* Rack.draw, lines 419-425: after the last shelf the side bars again
AfterShelf(racks, at) ==
    IF at.shelf < Len(racks[at.rack].shelves)
    THEN At("board", at.rack, at.shelf + 1, 0)
    ELSE At("bars_again", at.rack, 0, 0)

\* Rack.draw, lines 418-420: after the side bars the shelves in list order
AfterBars(racks, at) ==
    IF Len(racks[at.rack].shelves) > 0
    THEN At("board", at.rack, 1, 0)
    ELSE At("bars_again", at.rack, 0, 0)

\* Screen.draw, lines 355-356: after a rack the next one
AfterBarsAgain(racks, at) ==
    IF at.rack < Len(racks) THEN At("bars", at.rack + 1, 0, 0) ELSE AtEnd

\* Shelf.draw with the loop of lines 508-509 left out
AfterBoardNoItems(racks, at) == AfterShelf(racks, at)

\* Shelf.draw, lines 508-509: after the board the items in list order
AfterBoard(racks, at) ==
    IF Len(racks[at.rack].shelves[at.shelf].items) > 0
    THEN At("item", at.rack, at.shelf, 1)
    ELSE AfterShelf(racks, at)

\* Shelf.draw, lines 508-509: after an item the next one
AfterItem(racks, at) ==
    IF at.item < Len(racks[at.rack].shelves[at.shelf].items)
    THEN At("item", at.rack, at.shelf, at.item + 1)
    ELSE AfterShelf(racks, at)

\* what a draw step appends to the log: the node and the calls it made
Drawn(part, at, calls) ==
    [part |-> part, rack |-> at.rack, shelf |-> at.shelf, item |-> at.item, calls |-> calls]

\* the step of the walk: pc is "drawn" once the walk is at its end
Walk(at, entry, s) ==
    [tree EXCEPT !.pc = IF at = AtEnd THEN "drawn" ELSE "drawing",
                 !.at = at, !.log = Append(tree.log, entry), !.rng = s]

\* Screen.draw is called, lines 349-353: the background rectangle
TreeDrawBackground ==
    /\ \/ tree.pc = "built"
       \/ tree.pc = "drawn" /\ Len(tree.done) + 1 < MaxDraws
    /\ LET calls == ScreenDrawCalls(tree.pad, tree.joint_rack_w, tree.rack_h, << >>)
           at == AfterBackground(tree.racks)
       IN  tree' = [tree EXCEPT
               !.pc = IF at = AtEnd THEN "drawn" ELSE "drawing",
               !.at = at,
               !.done = IF tree.pc = "drawn" THEN Append(tree.done, tree.log) ELSE tree.done,
               !.log = << Drawn("background", At("background", 0, 0, 0), calls) >>]
    /\ UNCHANGED <<window_shape, screen_res, pad_arg, run, shelf, item, crd>>

\* Rack.draw, line 418 and line 425: draw_rack_alone
TreeDrawBars ==
    /\ tree.pc = "drawing"
    /\ tree.at.part \in {"bars", "bars_again"}
    /\ LET entry == Drawn("bars", tree.at, draw_rack_alone(tree.racks[tree.at.rack]))
       IN  tree' = Walk(IF tree.at.part = "bars" THEN AfterBars(tree.racks, tree.at)
                        ELSE AfterBarsAgain(tree.racks, tree.at),
                        entry, tree.rng)
    /\ UNCHANGED <<window_shape, screen_res, pad_arg, run, shelf, item, crd>>

\* Shelf.draw, lines 502-506: the board
TreeDrawBoard ==
    /\ tree.pc = "drawing"
    /\ tree.at.part = "board"
    /\ LET sh == tree.racks[tree.at.rack].shelves[tree.at.shelf]
       IN  tree' = Walk(AfterBoard(tree.racks, tree.at),
                        Drawn("board", tree.at, << ShelfBoard(sh) >>), tree.rng)
    /\ UNCHANGED <<window_shape, screen_res, pad_arg, run, shelf, item, crd>>

\* item.draw() of line 509: Beer.draw takes a number from the generator
TreeDrawItem ==
    /\ tree.pc = "drawing"
    /\ tree.at.part = "item"
    /\ LET it == tree.racks[tree.at.rack].shelves[tree.at.shelf].items[tree.at.item]
           calls == IF it.kind = "Jar" THEN JarCalls(it)
                    ELSE IF it.kind = "Salt" THEN SaltCalls(it)
                    ELSE BeerCalls(it, randint(tree.rng, 0, 10))
       IN  tree' = Walk(AfterItem(tree.racks, tree.at), Drawn("item", tree.at, calls),
                        IF it.kind = "Beer" THEN RngNext(tree.rng) ELSE tree.rng)
    /\ UNCHANGED <<window_shape, screen_res, pad_arg, run, shelf, item, crd>>

\* windows of two or three racks of three shelves, and one of a few pixels
TreeWindowSizes == { <<300, 200>>, <<430, 200>>, <<40, 40>> }
TreePadArgs ==
    { [kind |-> "default", left |-> 0, right |-> 0, top |-> 0, bottom |-> 0],
      [kind |-> "dict", left |-> 140, right |-> 140, top |-> 90, bottom |-> 90] }

InitTree ==
    /\ \E sz \in TreeWindowSizes :
          window_shape = [w |-> sz[1], h |-> sz[2], w_int |-> TRUE, h_int |-> TRUE]
    /\ screen_res \in { sr \in ScreenResolutions : ~sr.detected }
    /\ pad_arg \in TreePadArgs
    /\ run = << >>
    /\ shelf = IdleShelf
    /\ item = IdleItem
    /\ crd = IdleCrd
    /\ \E n \in min_number_of_racks .. max_number_of_racks, s \in RngStates :
          tree = TreeStart(n, s)

NextTree == TreeScreenInit \/ TreeDrawBackground \/ TreeDrawBars \/ TreeDrawBoard \/ TreeDrawItem

SpecTree == InitTree /\ [][NextTree]_vars

-----------------------------------------------------------------------------
(* Properties of a run.                                                    *)

Imported(r) == run[r].n_racks # 0
Attempted(r) == run[r].pc \in {"constructed", "drawn", "error"}
Built(r) == run[r].pc \in {"constructed", "drawn"}

\* C10: for every rack count the class body can draw, the item-width bounds
\* are (0.08, 0.18) exactly when n_racks is below the floored midpoint of the
\* rack-count bounds and (0.12, 0.27) otherwise, and max >= 2 * min.
C10_ItemWidthRegime ==
    \A r \in DOMAIN run :
        Imported(r) =>
            LET n == run[r].n_racks
                lo == Max((window_shape.w - 2 * Pad15(window_shape.w)) \div 250, 2)
                hi == Max((window_shape.w - 2 * Pad15(window_shape.w)) \div 100, 2)
                mn == run[r].min_item_width
                mx == run[r].max_item_width
            IN  /\ n \in lo .. hi
                /\ (n < (lo + hi) \div 2) <=> (mn = (8 * Unit) \div 100 /\ mx = (18 * Unit) \div 100)
                /\ (n >= (lo + hi) \div 2) <=> (mn = (12 * Unit) \div 100 /\ mx = (27 * Unit) \div 100)
                /\ mx >= 2 * mn
                /\ mn > 0

\* a run that drew the rack count just below the threshold, another regime
\* being possible for the same window
C10_Witness ==
    \E r \in DOMAIN run :
        /\ Imported(r)
        /\ run[r].n_racks = n_racks_threshold - 1
        /\ run[r].max_item_width = (18 * Unit) \div 100
        /\ max_number_of_racks > n_racks_threshold

\* C6: in a constructed Screen the i-th rack (from 0) has origin
\* (pad.left + i * rack_w, pad.bottom) and width rack_w = joint_rack_w // n,
\* consecutive racks touch, and n * rack_w <= joint_rack_w.
C6_RackTiling ==
    \A r \in DOMAIN run :
        Built(r) =>
            LET n == run[r].n_racks
                racks == run[r].racks
                rack_w == run[r].joint_rack_w \div n
            IN  /\ Len(racks) = n
                /\ run[r].joint_rack_w = window_shape.w - run[r].pad.left - run[r].pad.right
                /\ \A i \in 1 .. n :
                      /\ racks[i].lb_coords = <<run[r].pad.left + (i - 1) * rack_w, run[r].pad.bottom>>
                      /\ racks[i].width = rack_w
                /\ \A i \in 1 .. (n - 1) :
                      racks[i + 1].lb_coords[1] = racks[i].lb_coords[1] + racks[i].width
                /\ n * rack_w <= run[r].joint_rack_w
                /\ racks[n].lb_coords[1] + racks[n].width
                      <= run[r].pad.left + run[r].joint_rack_w

\* a constructed Screen of at least three racks whose division leaves a remainder
C6_Witness ==
    \E r \in DOMAIN run :
        /\ Built(r)
        /\ Len(run[r].racks) >= 3
        /\ run[r].joint_rack_w % run[r].n_racks # 0

\* the padding Screen(pad) works with, written out
C8_Pad ==
    IF pad_arg.kind = "dict" THEN pad_arg
    ELSE [left |-> Pad15(window_shape.w), right |-> Pad15(window_shape.w),
          top |-> Pad15(window_shape.h), bottom |-> Pad15(window_shape.h)]

C8_TooBig ==
    screen_res.detected /\ (window_shape.w > screen_res.width \/ window_shape.h > screen_res.height)

C8_Invalid(r) ==
    \/ ~window_shape.w_int
    \/ ~window_shape.h_int
    \/ window_shape.w <= 0
    \/ window_shape.h <= 0
    \/ C8_TooBig
    \/ window_shape.h - C8_Pad.top - C8_Pad.bottom < 1
    \/ (window_shape.w - C8_Pad.left - C8_Pad.right) \div run[r].n_racks < 1

C3_Determinism ==
    (DOMAIN run = {1, 2} /\ run[1].pc = "drawn" /\ run[2].pc = "drawn")
        => run[1].calls = run[2].calls

-----------------------------------------------------------------------------
(* Properties of Shelf.divide and of the budgets of a shelf.               *)

RECURSIVE SumSeq(_)
SumSeq(q) == IF q = << >> THEN 0 ELSE Head(q) + SumSeq(Tail(q))

Lengths(q) == [i \in 1 .. Len(q) |-> q[i][2] - q[i][1]]

\* q is a left-to-right tiling of [b, e]
Tiles(q, b, e) ==
    /\ Len(q) >= 1
    /\ q[1][1] = b
    /\ q[Len(q)][2] = e
    /\ \A i \in 1 .. Len(q) : q[i][1] < q[i][2]
    /\ \A i \in 1 .. (Len(q) - 1) : q[i][2] = q[i + 1][1]
    /\ SumSeq(Lengths(q)) = e - b

DivideReturned == shelf.pc \in {"divided", "items"}

\* C1: when divide(store, begin, end) has returned, the intervals appended
\* to store are in left-to-right order and tile [begin, end] exactly (first
\* begins at begin, last ends at end, each ends where the next begins,
\* lengths sum to end - begin); while it runs, store followed by the
\* pending calls is such a tiling.
C1_DivideTiles ==
    /\ DivideReturned => Tiles(shelf.store, shelf.begin, shelf.end)
    /\ shelf.pc = "divide" => Tiles(shelf.store \o shelf.stack, shelf.begin, shelf.end)

\* a direct call divide(store, begin, end), begin > 0, that split at least twice
C1_Witness ==
    /\ shelf.pc = "divided"
    /\ shelf.begin > 0
    /\ Len(shelf.store) >= 3

\* C2: every interval that divide(store, 0, 1) appended has a length
\* between min_item_width and max_item_width.
C2_LeafWidths ==
    (DivideReturned /\ shelf.begin = 0 /\ shelf.end = Unit) =>
        \A i \in 1 .. Len(shelf.store) :
            /\ shelf.store[i][2] - shelf.store[i][1] >= shelf.min_item_width
            /\ shelf.store[i][2] - shelf.store[i][1] <= shelf.max_item_width

\* divide(store, 0, 1) returned with an interval of exactly min_item_width,
\* a split having been drawn at the edge of its range
C2_Witness ==
    /\ shelf.pc = "divided"
    /\ shelf.begin = 0 /\ shelf.end = Unit
    /\ \E i \in 1 .. Len(shelf.store) :
          shelf.store[i][2] - shelf.store[i][1] = shelf.min_item_width

\* C5 (as claimed): the integer width budgets of a shelf sum to its width.
C5_BudgetsSumToWidth ==
    shelf.pc = "items" => SumSeq(shelf.budgets) = shelf.width

\* C5 (amended): each budget is the length times the width rounded down, so
\* the budgets sum to at most the width and to more than the width less the
\* number of items; they sum to the width exactly when no product
\* length * width has a fractional part.
C5_BudgetsWithinWidth ==
    shelf.pc = "items" =>
        /\ Len(shelf.budgets) = Len(shelf.store)
        /\ \A i \in 1 .. Len(shelf.budgets) :
              /\ shelf.budgets[i] * Unit <= (shelf.store[i][2] - shelf.store[i][1]) * shelf.width
              /\ (shelf.budgets[i] + 1) * Unit > (shelf.store[i][2] - shelf.store[i][1]) * shelf.width
        /\ SumSeq(shelf.budgets) <= shelf.width
        /\ SumSeq(shelf.budgets) > shelf.width - Len(shelf.budgets)
        /\ (SumSeq(shelf.budgets) = shelf.width) <=>
              (\A i \in 1 .. Len(shelf.store) :
                  ((shelf.store[i][2] - shelf.store[i][1]) * shelf.width) % Unit = 0)

\* the scenario of the claim, a shelf of width 300 with bounds 0.12 / 0.27,
\* whose budgets sum to less than 300
C5_Witness ==
    /\ shelf.pc = "items"
    /\ shelf.width = 300
    /\ shelf.min_item_width = (12 * Unit) \div 100
    /\ shelf.max_item_width = (27 * Unit) \div 100
    /\ SumSeq(shelf.budgets) < 300

-----------------------------------------------------------------------------
(* Properties of Coords.                                                   *)

\* C9 (as claimed): undo_shift is idempotent, a second application (and any
\* further one) leaves the object as the first left it.
C9_UndoShiftIdempotent ==
    (crd.pc = "live" /\ crd.n_undo >= 2) => crd.cur = crd.once

\* C9 (amended): undo_shift is a translation, not idempotent: each
\* application adds (W // 2, H // 2) to coords, x and y following coords, so
\* applying it twice gives the result of applying it once moved by
\* (W // 2, H // 2) again; the two agree only if W // 2 = 0 and H // 2 = 0.
C9_UndoShiftTranslates ==
    crd.pc = "live" =>
        /\ crd.cur.coords[1] = crd.base.coords[1] + crd.n_undo * (window_shape.w \div 2)
        /\ crd.cur.coords[2] = crd.base.coords[2] + crd.n_undo * (window_shape.h \div 2)
        /\ crd.cur.x = crd.cur.coords[1]
        /\ crd.cur.y = crd.cur.coords[2]
        /\ crd.n_undo >= 2 =>
              /\ crd.cur.coords[1] = crd.once.coords[1] + (crd.n_undo - 1) * (window_shape.w \div 2)
              /\ crd.cur.coords[2] = crd.once.coords[2] + (crd.n_undo - 1) * (window_shape.h \div 2)
              /\ (crd.cur = crd.once) <=> (window_shape.w \div 2 = 0 /\ window_shape.h \div 2 = 0)

\* undo_shift applied twice in the 1600 x 900 window, the second result 800
\* to the right of and 450 above the first
C9_Witness ==
    /\ crd.pc = "live"
    /\ crd.n_undo = 2
    /\ window_shape.w = 1600 /\ window_shape.h = 900
    /\ crd.cur.coords = <<crd.once.coords[1] + 800, crd.once.coords[2] + 450>>

-----------------------------------------------------------------------------
(* Properties of an item and of the origins of the draw calls.             *)

\* the corner-based positions the draw method of the node states, in call order
C7_Positions ==
    LET X == item.slot.x
        Y == item.slot.y
        Xi == item.slot.x + (item.slot.w - item.w) \div 2
        w == item.w
        h == item.h
    IN  CASE item.kind = "Jar" ->
                << <<X, Y>>, <<X + w \div 10, Y + (6 * h) \div 7>>,
                   <<X, Y>>, <<X + w \div 4, Y + (3 * h) \div 14>> >>
          [] item.kind = "Salt" -> << <<Xi, Y>> >>
          [] item.kind = "Beer" ->
                << <<Xi, Y>>, <<Xi, Y + h \div 6>>, <<Xi + w \div 3, Y + (11 * h) \div 12>> >>
          [] item.kind = "Rack" -> << <<X, Y>>, <<X + item.slot.w - 5, Y>> >>
          [] OTHER -> << <<X, Y>> >>

\* C7: the origin of every draw call is the intended corner-based position
\* (node origin plus the offset of the part) less (W // 2, H // 2), once: no
\* origin carries a half-window drift, whether it was built directly from a
\* position or by add_unbiased followed by undo_shift.
C7_NoDrift ==
    item.pc = "drawn" =>
        /\ Len(item.calls) = Len(C7_Positions)
        /\ \A i \in 1 .. Len(item.calls) :
              /\ item.calls[i].origin.coords =
                    << C7_Positions[i][1] - window_shape.w \div 2,
                       C7_Positions[i][2] - window_shape.h \div 2 >>
              /\ item.calls[i].origin.x = item.calls[i].origin.coords[1]
              /\ item.calls[i].origin.y = item.calls[i].origin.coords[2]

\* a drawn Beer that was narrowed and moved right when constructed: its cap is
\* drawn at an origin that went through add_unbiased and undo_shift twice over
C7_Witness ==
    /\ item.pc = "drawn"
    /\ item.kind = "Beer"
    /\ item.w < item.slot.w
    /\ (item.slot.w - item.w) \div 2 > 0
    /\ item.w \div 3 > 0
    /\ Len(item.calls) = 3

\* C4 (as claimed): a constructed item does not exceed its slot budget: a Jar
\* keeps the width and has its height in [h // 2, h]; a Beer has width <= w
\* and height <= h; a Salt has side <= w and triangle height
\* side * sqrt(3) / 2 <= h; a narrowed Salt or Beer stays within [x, x + w].
C4_ItemFits ==
    (item.pc \in {"built", "drawn"} /\ item.kind \in {"Jar", "Salt", "Beer"}) =>
        LET left == item.lb_coords.coords[1] + window_shape.w \div 2
        IN  /\ item.kind = "Jar" =>
                  /\ item.w = item.slot.w
                  /\ item.h >= item.slot.h \div 2
                  /\ item.h <= item.slot.h
            /\ item.kind = "Beer" => (item.w <= item.slot.w /\ item.h <= item.slot.h)
            /\ item.kind = "Salt" =>
                  /\ item.w <= item.slot.w
                  /\ 3 * item.w * item.w <= 4 * item.slot.h * item.slot.h
            /\ left >= item.slot.x
            /\ left + item.w <= item.slot.x + item.slot.w

-----------------------------------------------------------------------------
(* Properties of a scene and of the walk of Screen.draw over it.           *)

\* the logs of the calls of Screen.draw: the finished ones and the current
TreeLogs == tree.done \o << tree.log >>

\* the entries of log L that belong to rack i
OfRack(L, i) == { p \in 2 .. Len(L) : L[p].rack = i }
BarsOf(L, i) == { p \in OfRack(L, i) : L[p].part = "bars" }

\* the order of the entries of a log, finished or not
DepthFirst(L) ==
    /\ \A p \in 1 .. Len(L) : (L[p].part = "background") <=> (p = 1)
    /\ \A p, q \in 2 .. Len(L) : p < q => L[p].rack <= L[q].rack
    /\ \A p \in 2 .. Len(L) :
          LET bars == BarsOf(L, L[p].rack)
          IN  /\ Cardinality(bars) <= 2
              /\ \E b \in bars : \A q \in OfRack(L, L[p].rack) : b <= q
              /\ L[p].part = "bars" => Len(L[p].calls) = 2
              /\ L[p].part # "bars" =>
                    /\ Cardinality({ b \in bars : b < p }) = 1
                    /\ \A b \in bars : b > p => \A q \in OfRack(L, L[p].rack) : q <= b
    /\ \A p, q \in 2 .. Len(L) :
          (p < q /\ L[p].rack = L[q].rack /\ L[p].part # "bars" /\ L[q].part # "bars") =>
             /\ L[p].shelf <= L[q].shelf
             /\ L[p].shelf = L[q].shelf =>
                   (L[p].item < L[q].item /\ (L[p].part = "board" <=> L[p].item = 0))

\* every node of the scene is in the finished log L as often as it is drawn
EveryNodeOnce(L, racks) ==
    /\ \A p \in 2 .. Len(L) :
          /\ L[p].rack \in 1 .. Len(racks)
          /\ L[p].part # "bars" => L[p].shelf \in 1 .. Len(racks[L[p].rack].shelves)
          /\ L[p].part = "item" =>
                L[p].item \in 1 .. Len(racks[L[p].rack].shelves[L[p].shelf].items)
    /\ \A i \in 1 .. Len(racks) :
          /\ Cardinality(BarsOf(L, i)) = 2
          /\ \A b \in BarsOf(L, i) : L[b].calls = draw_rack_alone(racks[i])
          /\ \A j \in 1 .. Len(racks[i].shelves) :
                /\ Cardinality({ p \in OfRack(L, i) :
                                    L[p].part = "board" /\ L[p].shelf = j }) = 1
                /\ \A k \in 1 .. Len(racks[i].shelves[j].items) :
                      Cardinality({ p \in OfRack(L, i) :
                          L[p].part = "item" /\ L[p].shelf = j /\ L[p].item = k }) = 1

\* list order is the order on the screen: racks left to right, shelves
\* bottom to top, items left to right
SceneOrdered(racks) ==
    /\ \A i \in 1 .. Len(racks) - 1 : racks[i].lb_coords[1] < racks[i + 1].lb_coords[1]
    /\ \A i \in 1 .. Len(racks) :
          /\ \A j \in 1 .. Len(racks[i].shelves) - 1 :
                racks[i].shelves[j].lb_coords[2] < racks[i].shelves[j + 1].lb_coords[2]
          /\ \A j \in 1 .. Len(racks[i].shelves) :
                \A k \in 1 .. Len(racks[i].shelves[j].items) - 1 :
                    racks[i].shelves[j].items[k].slot.x <= racks[i].shelves[j].items[k + 1].slot.x

\* C11: Screen.draw emits its calls depth first: the background, then rack
\* by rack, left to right, the two side bars, the shelves bottom to top (the
\* board, then the items left to right), the two side bars again; a finished
\* draw has drawn every shelf and every item exactly once, and nothing of a
\* rack lies outside its two pairs of side bars or before the rack to its left
\* is finished.
C11_DepthFirstOrder ==
    tree.pc \in {"drawing", "drawn"} =>
        /\ SceneOrdered(tree.racks)
        /\ \A n \in 1 .. Len(TreeLogs) : DepthFirst(TreeLogs[n])
        /\ \A n \in 1 .. Len(tree.done) : EveryNodeOnce(tree.done[n], tree.racks)
        /\ tree.pc = "drawn" => EveryNodeOnce(tree.log, tree.racks)

C11_Witness ==
    /\ tree.pc = "drawn"
    /\ Len(tree.racks) >= 3
    /\ \E i \in 1 .. Len(tree.racks) : \E j \in 1 .. Len(tree.racks[i].shelves) :
          Len(tree.racks[i].shelves[j].items) >= 5
    /\ \A kind \in {"Jar", "Salt", "Beer"} :
          \E p \in 1 .. Len(tree.log) :
             /\ tree.log[p].part = "item"
             /\ tree.racks[tree.log[p].rack].shelves[tree.log[p].shelf]
                    .items[tree.log[p].item].kind = kind

\* C12: drawing decides nothing at random and changes nothing: while and
\* after Screen.draw runs the generator is in the state construction left it
\* in, and a second draw of the scene emits the calls of the first.
C12_DrawIsPure ==
    tree.pc \in {"drawing", "drawn"} =>
        /\ tree.rng = tree.rng_built
        /\ (tree.pc = "drawn" /\ tree.done # << >>) => tree.log = tree.done[1]

\* C13: a Screen(pad) that passed the checks of Screen.__init__ is built to
\* the end without an exception, every shelf is at least one pixel wide and
\* every item is constructed with a width and a height of at least one pixel.
C13_ConstructionTotal ==
    tree.validated =>
        /\ tree.pc # "error"
        /\ \A i \in 1 .. Len(tree.racks) : \A j \in 1 .. Len(tree.racks[i].shelves) :
              /\ tree.racks[i].shelves[j].width >= 1
              /\ \A k \in 1 .. Len(tree.racks[i].shelves[j].items) :
                    /\ tree.racks[i].shelves[j].items[k].slot.w >= 1
                    /\ tree.racks[i].shelves[j].items[k].slot.h >= 1

====
